---- MODULE Spec2Model ----
(***************************************************************************)
(* A model of the calculator web service of main.py: user registration and *)
(* login, the authorization dependency get_current_user, and the five      *)
(* /calculations routes, over the two tables of the SQLite store.          *)
(*                                                                         *)
(* A request is one step: the step records the request in req and the      *)
(* response in resp and applies the handler's committed writes to users    *)
(* and calcs; Respond ends the request.  SpecConc splits register_user at  *)
(* the point between its existence query and its insert, for requests      *)
(* served by several workers.                                              *)
(*                                                                         *)
(* Representation.  An Authorization header is the sequence of its parts   *)
(* around the first space: <<>> is an absent (or empty) header,            *)
(* <<"Bearer", "u1">> is "Bearer u1".  A response carries its status, the  *)
(* list of its error messages (the JSON "error" member, before the         *)
(* messages are joined), its body as a set of records, and gate: how       *)
(* get_current_user ended for the request ("NoGate" when the route does    *)
(* not depend on it).  Operands are drawn so that every quotient is exact. *)
(***************************************************************************)
EXTENDS Integers, Sequences, FiniteSets, TLC

VARIABLES
    users,      \* the users table: a sequence of rows, the row's id its index
    calcs,      \* the calculations table: a set of rows
    issued,     \* history: token -> time of its latest issue by login_user
    now,        \* the clock
    pending,    \* worker -> the register request it holds between query and insert
    gone,       \* history: ids deleted since the latest successful create
    refused,    \* history: the <<status, error>> of the gate's rejections
    req,        \* the latest request
    resp        \* its response

vars == <<users, calcs, issued, now, pending, gone, refused, req, resp>>

----------------------------------------------------------------------------
(* Bounds of the model *)

MaxUsers == 2
MaxCalcId == 2
MaxTime == 2
MaxWorkers == 2

(* Constants of the program *)

MinUsernameLen == 2
MaxUsernameLen == 50
MinPasswordLen == 8
LoginMinPasswordLen == 8

(* The token lifetime the specification asks for (the code has none), in   *)
(* ticks of the clock.                                                     *)
TokenTTL == 1

----------------------------------------------------------------------------
(* Helpers *)

MaxOf(S) == CHOOSE m \in S : \A n \in S : n <= m

NoHeader == <<>>

NoPayload == [none |-> TRUE]

Idle == [none |-> TRUE]

----------------------------------------------------------------------------
(* Responses *)

Response(status, error, body, gate) ==
    [status |-> status, error |-> error, body |-> body, gate |-> gate]

\* main.py:87-90: an HTTPException becomes {"error": detail} with its status.
http_exception_handler(status, detail, gate) ==
    Response(status, <<detail>>, {}, gate)

\* A variant: the framework's own status for a request it cannot validate.
validation_exception_handler_422(errors, gate) ==
    Response(422, errors, {}, gate)

\* main.py:92-96: request validation errors become 400 with the messages
\* of all the errors.
validation_exception_handler(errors, gate) ==
    Response(400, errors, {}, gate)

\* An exception no handler catches: the framework answers 500.
InternalServerError(gate) ==
    Response(500, <<"Internal Server Error">>, {}, gate)

----------------------------------------------------------------------------
(* app.security *)

hash_password(password) == <<"hash", password>>

verify_password(password, password_hash) ==
    password_hash = hash_password(password)

----------------------------------------------------------------------------
(* app.schemas.user *)

EmailShaped == {"a@x.com", "b@x.com", "u1@example.com"}

\* EmailStr
IsEmail(s) == s \in EmailShaped

UserCreateErrors(payload) ==
    (IF Len(payload.username) < MinUsernameLen
        THEN <<"username: String should have at least 2 characters">>
        ELSE IF Len(payload.username) > MaxUsernameLen
        THEN <<"username: String should have at most 50 characters">>
        ELSE <<>>)
    \o (IF IsEmail(payload.email)
        THEN <<>>
        ELSE <<"email: value is not a valid email address">>)
    \o (IF Len(payload.password) < MinPasswordLen
        THEN <<"password: String should have at least 8 characters">>
        ELSE <<>>)

\* main.py:135-137
UserLoginRequestErrors(payload) ==
    IF Len(payload.password) < LoginMinPasswordLen
    THEN <<"password: String should have at least 8 characters">>
    ELSE <<>>

\* UserRead, without created_at
UserRead(user) ==
    [id |-> user.id, username |-> user.username, email |-> user.email]

----------------------------------------------------------------------------
(* The users table *)

\* A variant: a users table with no unique constraint.
UniqueNeverViolated(rows, user) == FALSE

\* The unique constraints of the users table on username and on email.
UniqueViolated(rows, user) ==
    \E i \in DOMAIN rows :
        rows[i].username = user.username \/ rows[i].email = user.email

\* main.py:141-143: the rows with the payload's username or its email.
RegisterMatches(rows, payload) ==
    {i \in DOMAIN rows :
        rows[i].username = payload.username \/ rows[i].email = payload.email}

\* main.py:146-150
NewUser(rows, payload) ==
    [id |-> Len(rows) + 1,
     username |-> payload.username,
     email |-> payload.email,
     password_hash |-> hash_password(payload.password)]

\* main.py:151-154: db.add, db.commit; the insert fails on a unique
\* constraint, the exception is caught nowhere.
register_insert(rows, payload) ==
    LET user == NewUser(rows, payload) IN
    IF UniqueViolated(rows, user)
    THEN [resp |-> InternalServerError("NoGate"), users |-> rows]
    ELSE [resp |-> Response(200, <<>>, {UserRead(user)}, "NoGate"),
          users |-> Append(rows, user)]

\* A variant: no existence query before the insert.
register_user_nocheck(rows, payload) ==
    IF UserCreateErrors(payload) # <<>>
    THEN [resp |-> validation_exception_handler(UserCreateErrors(payload), "NoGate"),
          users |-> rows]
    ELSE register_insert(rows, payload)

\* main.py:139-154, a request served without interruption
register_user(rows, payload) ==
    IF UserCreateErrors(payload) # <<>>
    THEN [resp |-> validation_exception_handler(UserCreateErrors(payload), "NoGate"),
          users |-> rows]
    ELSE IF RegisterMatches(rows, payload) # {}
    THEN [resp |-> http_exception_handler(400,
                       "Username or email already registered", "NoGate"),
          users |-> rows]
    ELSE register_insert(rows, payload)

\* main.py:158-161: the rows with the identifier as username or as email.
LoginMatches(rows, identifier) ==
    {i \in DOMAIN rows :
        rows[i].username = identifier \/ rows[i].email = identifier}

\* .first() of a query with no ORDER BY: any one of the matching rows,
\* 0 for None.
FirstOf(matches) == IF matches = {} THEN {0} ELSE matches

\* A variant: an unknown identifier is told apart from a wrong password.
login_user_names_unknown(rows, payload, i) ==
    IF UserLoginRequestErrors(payload) # <<>>
    THEN validation_exception_handler(UserLoginRequestErrors(payload), "NoGate")
    ELSE IF i = 0
    THEN http_exception_handler(404, "User not found", "NoGate")
    ELSE IF ~verify_password(payload.password, rows[i].password_hash)
    THEN http_exception_handler(400, "Invalid credentials", "NoGate")
    ELSE Response(200, <<>>, {[token |-> rows[i].username]}, "NoGate")

\* main.py:156-165, with i the row .first() returned
login_user(rows, payload, i) ==
    IF UserLoginRequestErrors(payload) # <<>>
    THEN validation_exception_handler(UserLoginRequestErrors(payload), "NoGate")
    ELSE IF i = 0 \/ ~verify_password(payload.password, rows[i].password_hash)
    THEN http_exception_handler(400, "Invalid credentials", "NoGate")
    ELSE Response(200, <<>>, {[token |-> rows[i].username]}, "NoGate")

----------------------------------------------------------------------------
(* The authorization dependency *)

\* main.py:168-175.  The result: the gate's end and, when it rejects, its
\* response.
get_current_user(rows, authorization) ==
    IF authorization = NoHeader
       \/ Len(authorization) < 2
       \/ authorization[1] # "Bearer"
    THEN [gate |-> "NotAuthenticated",
          resp |-> http_exception_handler(401, "Not authenticated", "NotAuthenticated")]
    ELSE IF \E i \in DOMAIN rows : rows[i].username = authorization[2]
    THEN [gate |-> "Authenticated",
          resp |-> Response(200, <<>>, {}, "Authenticated")]
    ELSE [gate |-> "InvalidToken",
          resp |-> http_exception_handler(401, "Invalid token", "InvalidToken")]

----------------------------------------------------------------------------
(* app.operations *)

Returned(value) ==
    [raised |-> FALSE, kind |-> "", value |-> value, message |-> ""]

\* An exception of class kind whose str() is message
Raised(kind, message) ==
    [raised |-> TRUE, kind |-> kind, value |-> 0, message |-> message]

add(a, b) == Returned(a + b)

subtract(a, b) == Returned(a - b)

multiply(a, b) == Returned(a * b)

\* a / b; the operands of the model make the quotient exact
divide(a, b) ==
    IF b = 0
    THEN Raised("ValueError", "Cannot divide by zero!")
    ELSE Returned(a \div b)

----------------------------------------------------------------------------
(* The calculator routes.  outcome is what the call of the operation did:  *)
(* it returned a value or raised an exception.                             *)

\* OperationResponse
OperationResponse(result) ==
    Response(200, <<>>, {[result |-> result]}, "NoGate")

\* main.py:99-105
add_route(outcome) ==
    IF outcome.raised
    THEN http_exception_handler(400, outcome.message, "NoGate")
    ELSE OperationResponse(outcome.value)

\* main.py:107-113
subtract_route(outcome) ==
    IF outcome.raised
    THEN http_exception_handler(400, outcome.message, "NoGate")
    ELSE OperationResponse(outcome.value)

\* main.py:115-121
multiply_route(outcome) ==
    IF outcome.raised
    THEN http_exception_handler(400, outcome.message, "NoGate")
    ELSE OperationResponse(outcome.value)

\* A variant: every exception of the division is answered like a ValueError.
divide_route_catch_all(outcome) ==
    IF outcome.raised
    THEN http_exception_handler(400, outcome.message, "NoGate")
    ELSE OperationResponse(outcome.value)

\* main.py:123-132
divide_route(outcome) ==
    IF ~outcome.raised
    THEN OperationResponse(outcome.value)
    ELSE IF outcome.kind = "ValueError"
    THEN http_exception_handler(400, outcome.message, "NoGate")
    ELSE http_exception_handler(500, "Internal Server Error", "NoGate")

----------------------------------------------------------------------------
(* app.schemas.calculation, app.models.calculation *)

CalculationType == {"Add", "Subtract", "Multiply", "Divide"}

DivisionByZeroMsg == "Division by zero"

\* CalculationCreate refuses a Divide by zero.
CalculationCreateErrors(payload) ==
    IF payload.type = "Divide" /\ payload.b = 0
    THEN <<DivisionByZeroMsg>>
    ELSE <<>>

\* The id of a new row: SQLite's rowid, one more than the largest in the table.
NextId(store) ==
    IF store = {} THEN 1 ELSE MaxOf({c.id : c \in store}) + 1

----------------------------------------------------------------------------
(* The /calculations routes.  The dependency runs first, then the body is  *)
(* validated, then the handler runs.  Each result: the response and the    *)
(* table as committed.                                                     *)

\* main.py:191-198 and 229-236
Calculate(payload) ==
    IF payload.type = "Add" THEN add(payload.a, payload.b)
    ELSE IF payload.type = "Subtract" THEN subtract(payload.a, payload.b)
    ELSE IF payload.type = "Multiply" THEN multiply(payload.a, payload.b)
    ELSE divide(payload.a, payload.b)

\* main.py:211 (and 223, 246): the row with the id, as a set
RowsWithId(store, calc_id) == {c \in store : c.id = calc_id}

\* main.py:178-183
browse_calculations(rows, store, authorization) ==
    LET auth == get_current_user(rows, authorization) IN
    IF auth.gate # "Authenticated"
    THEN [resp |-> auth.resp, calcs |-> store]
    ELSE [resp |-> Response(200, <<>>, store, auth.gate), calcs |-> store]

\* main.py:185-203
create_calculation(rows, store, authorization, payload) ==
    LET auth == get_current_user(rows, authorization)
        result == Calculate(payload)
        calc == [id |-> NextId(store), a |-> payload.a, b |-> payload.b,
                 type |-> payload.type, result |-> result.value]
    IN
    IF auth.gate # "Authenticated"
    THEN [resp |-> auth.resp, calcs |-> store]
    ELSE IF CalculationCreateErrors(payload) # <<>>
    THEN [resp |-> validation_exception_handler(
                       CalculationCreateErrors(payload), auth.gate),
          calcs |-> store]
    ELSE IF result.raised
    THEN [resp |-> InternalServerError(auth.gate), calcs |-> store]
    ELSE [resp |-> Response(200, <<>>, {calc}, auth.gate),
          calcs |-> store \cup {calc}]

\* main.py:205-214
get_calculation(rows, store, authorization, calc_id) ==
    LET auth == get_current_user(rows, authorization) IN
    IF auth.gate # "Authenticated"
    THEN [resp |-> auth.resp, calcs |-> store]
    ELSE IF RowsWithId(store, calc_id) = {}
    THEN [resp |-> http_exception_handler(404, "Calculation not found", auth.gate),
          calcs |-> store]
    ELSE [resp |-> Response(200, <<>>, RowsWithId(store, calc_id), auth.gate),
          calcs |-> store]

\* A variant: the update writes a, b and type and leaves the result of the
\* row as it was.
update_calculation_stale_result(rows, store, authorization, calc_id, payload) ==
    LET auth == get_current_user(rows, authorization)
        result == Calculate(payload)
        old == CHOOSE c \in RowsWithId(store, calc_id) : TRUE
        calc == [id |-> calc_id, a |-> payload.a, b |-> payload.b,
                 type |-> payload.type, result |-> old.result]
    IN
    IF auth.gate # "Authenticated"
    THEN [resp |-> auth.resp, calcs |-> store]
    ELSE IF CalculationCreateErrors(payload) # <<>>
    THEN [resp |-> validation_exception_handler(
                       CalculationCreateErrors(payload), auth.gate),
          calcs |-> store]
    ELSE IF RowsWithId(store, calc_id) = {}
    THEN [resp |-> http_exception_handler(404, "Calculation not found", auth.gate),
          calcs |-> store]
    ELSE IF result.raised
    THEN [resp |-> InternalServerError(auth.gate), calcs |-> store]
    ELSE [resp |-> Response(200, <<>>, {calc}, auth.gate),
          calcs |-> (store \ RowsWithId(store, calc_id)) \cup {calc}]

\* main.py:216-239
update_calculation(rows, store, authorization, calc_id, payload) ==
    LET auth == get_current_user(rows, authorization)
        result == Calculate(payload)
        calc == [id |-> calc_id, a |-> payload.a, b |-> payload.b,
                 type |-> payload.type, result |-> result.value]
    IN
    IF auth.gate # "Authenticated"
    THEN [resp |-> auth.resp, calcs |-> store]
    ELSE IF CalculationCreateErrors(payload) # <<>>
    THEN [resp |-> validation_exception_handler(
                       CalculationCreateErrors(payload), auth.gate),
          calcs |-> store]
    ELSE IF RowsWithId(store, calc_id) = {}
    THEN [resp |-> http_exception_handler(404, "Calculation not found", auth.gate),
          calcs |-> store]
    ELSE IF result.raised
    THEN [resp |-> InternalServerError(auth.gate), calcs |-> store]
    ELSE [resp |-> Response(200, <<>>, {calc}, auth.gate),
          calcs |-> (store \ RowsWithId(store, calc_id)) \cup {calc}]

\* A variant: the delete is never committed.
delete_calculation_nocommit(rows, store, authorization, calc_id) ==
    IF RowsWithId(store, calc_id) = {}
    THEN [resp |-> http_exception_handler(404, "Calculation not found", "NoGate"),
          calcs |-> store]
    ELSE [resp |-> Response(204, <<>>, {}, "NoGate"), calcs |-> store]

\* main.py:241-251: the route has no dependency on get_current_user
delete_calculation(rows, store, authorization, calc_id) ==
    IF RowsWithId(store, calc_id) = {}
    THEN [resp |-> http_exception_handler(404, "Calculation not found", "NoGate"),
          calcs |-> store]
    ELSE [resp |-> Response(204, <<>>, {}, "NoGate"),
          calcs |-> store \ RowsWithId(store, calc_id)]

----------------------------------------------------------------------------
(* Inputs *)

Workers == 1..MaxWorkers

CalcIds == 1..MaxCalcId

Headers ==
    {NoHeader, <<"Bearer", "u1">>, <<"Bearer", "nobody">>, <<"Basic", "u1">>}

CalcPayloads ==
    [type : CalculationType, a : {6}, b : {0, 2}]
        \cup {[type |-> "Divide", a |-> 0, b |-> 0]}

\* the user of the calculation tests
CrudRegPayloads ==
    {[username |-> "u1", email |-> "u1@example.com", password |-> "password123"]}

CrudLoginPayloads ==
    [username_or_email : {"u1"}, password : {"password123", "pass1234"}]

\* "u" is too short a username, "notanemail" no email, "short" too short a
\* password; "a@x.com" is a username and an email.
RegPayloads ==
    [username : {"u1", "u2", "a@x.com", "u"},
     email : {"a@x.com", "b@x.com", "u1@example.com", "notanemail"},
     password : {"password123", "pass1234", "short"}]

LoginPayloads ==
    [username_or_email : {"u1", "u2", "a@x.com", "b@x.com"},
     password : {"password123", "pass1234", "short"}]

ConcRegPayloads ==
    [username : {"u1", "u2"}, email : {"a@x.com", "b@x.com"},
     password : {"password123"}]

\* the operands of the calculator tests' kind
Operands == [a : {0, 6, 12}, b : {0, 2, 3}]

\* What an operation replaced by a failing one raises (the tests replace
\* main.add, main.subtract, main.multiply and main.divide): "ValueError" is
\* ValueError or a subclass of it, the other classes are not.
Failures ==
    {Raised(kind, message) :
        kind \in {"ValueError", "ZeroDivisionError", "Exception"},
        message \in {"err", "Cannot divide by zero!"}}

Request(op, authorization, calc_id, payload) ==
    [op |-> op, auth |-> authorization, id |-> calc_id, payload |-> payload]

NoRequest == Request("none", NoHeader, 0, NoPayload)

NoResponse == Response(0, <<>>, {}, "NoGate")

----------------------------------------------------------------------------
(* The state after startup: both tables empty, no request served *)

Init ==
    /\ users = <<>>
    /\ calcs = {}
    /\ issued = <<>>
    /\ now = 0
    /\ pending = [w \in Workers |-> Idle]
    /\ gone = {}
    /\ refused = {}
    /\ req = NoRequest
    /\ resp = NoResponse

----------------------------------------------------------------------------
(* Requests *)

\* The gate's rejections so far, with that of response r
Refusals(r) ==
    IF r.gate \in {"NotAuthenticated", "InvalidToken"}
    THEN refused \cup {<<r.status, r.error>>}
    ELSE refused

\* The response is sent and the request is over (db.py:26-27).
Respond ==
    /\ req # NoRequest
    /\ req' = NoRequest
    /\ resp' = NoResponse
    /\ UNCHANGED <<users, calcs, issued, now, pending, gone, refused>>

\* POST /users/register
Register(payload) ==
    LET out == register_user(users, payload) IN
    /\ req = NoRequest
    /\ out.users # users => Len(users) < MaxUsers
    /\ users' = out.users
    /\ req' = Request("register", NoHeader, 0, payload)
    /\ resp' = out.resp
    /\ UNCHANGED <<calcs, issued, now, pending, gone, refused>>

\* POST /users/login
Login(payload) ==
    \E i \in FirstOf(LoginMatches(users, payload.username_or_email)) :
        LET r == login_user(users, payload, i) IN
        /\ req = NoRequest
        /\ req' = Request("login", NoHeader, 0, payload)
        /\ resp' = r
        /\ issued' = IF r.status = 200
                     THEN [t \in DOMAIN issued \cup {users[i].username} |->
                              IF t = users[i].username THEN now ELSE issued[t]]
                     ELSE issued
        /\ UNCHANGED <<users, calcs, now, pending, gone, refused>>

\* GET /calculations
Browse(authorization) ==
    LET out == browse_calculations(users, calcs, authorization) IN
    /\ req = NoRequest
    /\ req' = Request("browse", authorization, 0, NoPayload)
    /\ resp' = out.resp
    /\ calcs' = out.calcs
    /\ refused' = Refusals(out.resp)
    /\ UNCHANGED <<users, issued, now, pending, gone>>

\* POST /calculations
Create(authorization, payload) ==
    LET out == create_calculation(users, calcs, authorization, payload) IN
    /\ req = NoRequest
    /\ out.calcs # calcs => NextId(calcs) <= MaxCalcId
    /\ req' = Request("create", authorization, 0, payload)
    /\ resp' = out.resp
    /\ calcs' = out.calcs
    /\ refused' = Refusals(out.resp)
    /\ gone' = IF out.resp.status = 200 THEN {} ELSE gone
    /\ UNCHANGED <<users, issued, now, pending>>

\* GET /calculations/{calc_id}
Get(authorization, calc_id) ==
    LET out == get_calculation(users, calcs, authorization, calc_id) IN
    /\ req = NoRequest
    /\ req' = Request("get", authorization, calc_id, NoPayload)
    /\ resp' = out.resp
    /\ calcs' = out.calcs
    /\ refused' = Refusals(out.resp)
    /\ UNCHANGED <<users, issued, now, pending, gone>>

\* PUT /calculations/{calc_id}
Update(authorization, calc_id, payload) ==
    LET out == update_calculation(users, calcs, authorization, calc_id, payload) IN
    /\ req = NoRequest
    /\ req' = Request("update", authorization, calc_id, payload)
    /\ resp' = out.resp
    /\ calcs' = out.calcs
    /\ refused' = Refusals(out.resp)
    /\ UNCHANGED <<users, issued, now, pending, gone>>

\* DELETE /calculations/{calc_id}
Delete(authorization, calc_id) ==
    LET out == delete_calculation(users, calcs, authorization, calc_id) IN
    /\ req = NoRequest
    /\ req' = Request("delete", authorization, calc_id, NoPayload)
    /\ resp' = out.resp
    /\ calcs' = out.calcs
    /\ refused' = Refusals(out.resp)
    /\ gone' = IF out.resp.status = 204 THEN gone \cup {calc_id} ELSE gone
    /\ UNCHANGED <<users, issued, now, pending>>

\* The request of a calculator route: the operands and what the operation did
OperationRequest(operands, outcome) ==
    [a |-> operands.a, b |-> operands.b, outcome |-> outcome]

\* POST /add
AddRoute(operands, outcome) ==
    /\ req = NoRequest
    /\ req' = Request("add", NoHeader, 0, OperationRequest(operands, outcome))
    /\ resp' = add_route(outcome)
    /\ UNCHANGED <<users, calcs, issued, now, pending, gone, refused>>

\* POST /subtract
SubtractRoute(operands, outcome) ==
    /\ req = NoRequest
    /\ req' = Request("subtract", NoHeader, 0, OperationRequest(operands, outcome))
    /\ resp' = subtract_route(outcome)
    /\ UNCHANGED <<users, calcs, issued, now, pending, gone, refused>>

\* POST /multiply
MultiplyRoute(operands, outcome) ==
    /\ req = NoRequest
    /\ req' = Request("multiply", NoHeader, 0, OperationRequest(operands, outcome))
    /\ resp' = multiply_route(outcome)
    /\ UNCHANGED <<users, calcs, issued, now, pending, gone, refused>>

\* POST /divide
DivideRoute(operands, outcome) ==
    /\ req = NoRequest
    /\ req' = Request("divide", NoHeader, 0, OperationRequest(operands, outcome))
    /\ resp' = divide_route(outcome)
    /\ UNCHANGED <<users, calcs, issued, now, pending, gone, refused>>

\* Time passes.
Tick ==
    /\ req = NoRequest
    /\ now < MaxTime
    /\ now' = now + 1
    /\ UNCHANGED <<users, calcs, issued, pending, gone, refused, req, resp>>

\* register_user up to its existence query (main.py:141-145), on worker w
RegisterQuery(w, payload) ==
    /\ req = NoRequest
    /\ pending[w] = Idle
    /\ Len(users) < MaxUsers
    /\ IF UserCreateErrors(payload) # <<>> \/ RegisterMatches(users, payload) # {}
       THEN /\ req' = Request("register", NoHeader, 0, payload)
            /\ resp' = register_user(users, payload).resp
            /\ UNCHANGED pending
       ELSE /\ pending' = [pending EXCEPT ![w] = payload]
            /\ UNCHANGED <<req, resp>>
    /\ UNCHANGED <<users, calcs, issued, now, gone, refused>>

\* register_user from its insert on (main.py:146-154), on worker w
RegisterInsert(w) ==
    /\ req = NoRequest
    /\ pending[w] # Idle
    /\ LET out == register_insert(users, pending[w]) IN
       /\ users' = out.users
       /\ req' = Request("register", NoHeader, 0, pending[w])
       /\ resp' = out.resp
    /\ pending' = [pending EXCEPT ![w] = Idle]
    /\ UNCHANGED <<calcs, issued, now, gone, refused>>

----------------------------------------------------------------------------
(* Specifications *)

\* The service with the user of the calculation tests
Next ==
    \/ \E payload \in CrudRegPayloads : Register(payload)
    \/ \E payload \in CrudLoginPayloads : Login(payload)
    \/ \E h \in Headers : Browse(h)
    \/ \E h \in Headers, payload \in CalcPayloads : Create(h, payload)
    \/ \E h \in Headers, id \in CalcIds : Get(h, id)
    \/ \E h \in Headers, id \in CalcIds, payload \in CalcPayloads : Update(h, id, payload)
    \/ \E h \in Headers, id \in CalcIds : Delete(h, id)
    \/ Respond

Spec == Init /\ [][Next]_vars

\* Registration and login
NextUsers ==
    \/ \E payload \in RegPayloads : Register(payload)
    \/ \E payload \in LoginPayloads : Login(payload)
    \/ Respond

SpecUsers == Init /\ [][NextUsers]_vars

\* Registration on several workers
NextConc ==
    \/ \E w \in Workers, payload \in ConcRegPayloads : RegisterQuery(w, payload)
    \/ \E w \in Workers : RegisterInsert(w)
    \/ Respond

SpecConc == Init /\ [][NextConc]_vars

\* Login and a protected route as time passes
NextTime ==
    \/ \E payload \in CrudRegPayloads : Register(payload)
    \/ \E payload \in CrudLoginPayloads : Login(payload)
    \/ \E h \in Headers : Browse(h)
    \/ Tick
    \/ Respond

SpecTime == Init /\ [][NextTime]_vars

\* The calculator routes, with the operations as they are and replaced by
\* failing ones
NextArith ==
    \/ \E o \in Operands :
           \E outcome \in {add(o.a, o.b)} \cup Failures :
               AddRoute(o, outcome)
    \/ \E o \in Operands :
           \E outcome \in {subtract(o.a, o.b)} \cup Failures :
               SubtractRoute(o, outcome)
    \/ \E o \in Operands :
           \E outcome \in {multiply(o.a, o.b)} \cup Failures :
               MultiplyRoute(o, outcome)
    \/ \E o \in Operands :
           \E outcome \in {divide(o.a, o.b)} \cup Failures :
               DivideRoute(o, outcome)
    \/ Respond

SpecArith == Init /\ [][NextArith]_vars

----------------------------------------------------------------------------
(* Properties *)

CalcOps == {"browse", "create", "get", "update", "delete"}

Range(s) == {s[i] : i \in DOMAIN s}

\* A step that serves a request
Serves(op) == req = NoRequest /\ req'.op = op

\* The header is "Bearer <token>".
IsBearer(h) == Len(h) = 2 /\ h[1] = "Bearer"

\* The header carries the token of a registered user.
Authenticated(h) ==
    IsBearer(h) /\ \E i \in DOMAIN users : users[i].username = h[2]

\* C1: a request to any of the five /calculations routes that carries no
\* Authorization header is answered 401, whether or not the addressed id
\* exists, and leaves the calculations table unchanged.
C1_NoHeaderIsUnauthenticated ==
    [][(req = NoRequest /\ req'.op \in CalcOps /\ req'.auth = NoHeader)
          => (resp'.status = 401 /\ calcs' = calcs)]_vars

\* C2: for every registered user and every identifier equal to the user's
\* username or email, login with the password of the user's registration
\* succeeds and returns a token, and login with any other password fails
\* and returns no token.
C2_LoginByRegistrationPassword ==
    req.op = "login" =>
        \A i \in DOMAIN users :
            req.payload.username_or_email \in {users[i].username, users[i].email}
            => IF verify_password(req.payload.password, users[i].password_hash)
               THEN resp.status = 200 /\ resp.body # {}
               ELSE resp.status = 400 /\ resp.body = {}

\* C3: a valid registration whose username and email are both absent from
\* the users table succeeds and adds exactly one user, the payload's; a
\* registration with the payload of an existing user fails with 400
\* "Username or email already registered" and leaves the table unchanged.
C3_RegisterOnceThenDuplicate ==
    [][(Serves("register") /\ UserCreateErrors(req'.payload) = <<>>) =>
          LET p == req'.payload IN
          /\ (\A i \in DOMAIN users :
                  users[i].username # p.username /\ users[i].email # p.email)
             => /\ resp'.status = 200
                /\ Len(users') = Len(users) + 1
                /\ SubSeq(users', 1, Len(users)) = users
                /\ users'[Len(users')].username = p.username
                /\ users'[Len(users')].email = p.email
                /\ verify_password(p.password, users'[Len(users')].password_hash)
          /\ (\E i \in DOMAIN users :
                  /\ users[i].username = p.username
                  /\ users[i].email = p.email
                  /\ verify_password(p.password, users[i].password_hash))
             => /\ resp'.status = 400
                /\ resp'.error = <<"Username or email already registered">>
                /\ users' = users]_vars

\* A second registration with the payload of an existing user was refused.
C3_Witness ==
    /\ req.op = "register"
    /\ resp.status = 400
    /\ resp.error = <<"Username or email already registered">>
    /\ \E i \in DOMAIN users :
           /\ users[i].username = req.payload.username
           /\ users[i].email = req.payload.email
           /\ verify_password(req.payload.password, users[i].password_hash)

UniqueUsers ==
    \A i, j \in DOMAIN users :
        i # j => /\ users[i].username # users[j].username
                 /\ users[i].email # users[j].email

\* C4: under any interleaving of register requests, each an existence
\* query followed by an insert, no two users share a username or an email,
\* and a request whose insert finds its username or email taken fails and
\* leaves the table unchanged.
C4_RacingRegistrationsStayUnique ==
    /\ []UniqueUsers
    /\ [][\A w \in Workers :
             (/\ pending[w] # Idle
              /\ pending'[w] = Idle
              /\ \E i \in DOMAIN users :
                     \/ users[i].username = pending[w].username
                     \/ users[i].email = pending[w].email)
             => (resp'.status >= 400 /\ users' = users)]_vars

\* A request passed its existence query and then found its username or
\* email taken at its insert.
C4_Witness ==
    /\ req.op = "register"
    /\ resp.status = 500
    /\ \E i \in DOMAIN users :
           \/ users[i].username = req.payload.username
           \/ users[i].email = req.payload.email

\* C5: the gate authenticates a request only if its bearer token was issued
\* before by the service.
C5_OnlyIssuedTokensAuthenticate ==
    resp.gate = "Authenticated" => req.auth[2] \in DOMAIN issued

\* C6: a token issued at login is accepted by the gate only up to its
\* expiry, TokenTTL after its issue; no token stays valid for ever.
C6_IssuedTokenExpires ==
    (resp.gate = "Authenticated" /\ req.auth[2] \in DOMAIN issued)
        => now <= issued[req.auth[2]] + TokenTTL

\* C7: an authenticated POST /calculations with a Divide by zero, whatever
\* a, is answered 400 with a division-by-zero error, and no row is written.
C7_DivideByZeroIsRefused ==
    [][(/\ Serves("create")
        /\ Authenticated(req'.auth)
        /\ req'.payload.type = "Divide"
        /\ req'.payload.b = 0)
          => /\ resp'.status = 400
             /\ DivisionByZeroMsg \in Range(resp'.error)
             /\ calcs' = calcs]_vars

C7_Witness ==
    /\ req.op = "create"
    /\ Authenticated(req.auth)
    /\ req.payload.type = "Divide"
    /\ req.payload.b = 0
    /\ resp.status = 400
    /\ calcs # {}

\* On requests that carry a registered user's token: a GET of the id of a
\* row returns that row and a GET of the list returns every row; a DELETE
\* of the id of a row is answered 204 and removes that row and no other.
C8_ReadableUntilDeleted ==
    \A c \in calcs :
        /\ (Serves("get") /\ Authenticated(req'.auth) /\ req'.id = c.id)
           => (resp'.status = 200 /\ resp'.body = {c})
        /\ (Serves("browse") /\ Authenticated(req'.auth))
           => (resp'.status = 200 /\ c \in resp'.body)
        /\ (Serves("delete") /\ Authenticated(req'.auth) /\ req'.id = c.id)
           => (resp'.status = 204 /\ calcs' = calcs \ {c})

\* C8, as stated: a created row is readable until it is deleted, and after
\* the delete and until the next create every GET, PUT and DELETE of the id
\* (with a registered user's token) is answered 404, whatever the PUT's
\* payload.
C8_AnyRequestAfterDelete ==
    [][/\ C8_ReadableUntilDeleted
       /\ \A id \in gone :
             (/\ req = NoRequest
              /\ req'.op \in {"get", "update", "delete"}
              /\ Authenticated(req'.auth)
              /\ req'.id = id)
             => resp'.status = 404]_vars

\* C8, amended: an authenticated GET of the id of a row returns that row and
\* an authenticated GET of the list returns every row; an authenticated
\* DELETE of the id of a row is answered 204 and removes that row and no
\* other; after the delete and until the next create, an authenticated GET
\* or DELETE of the id, and an authenticated PUT of the id whose payload
\* passes validation, is answered 404.
C8_CreatedUntilDeleted ==
    [][/\ C8_ReadableUntilDeleted
       /\ \A id \in gone :
             /\ (Serves("get") /\ Authenticated(req'.auth) /\ req'.id = id)
                => resp'.status = 404
             /\ (/\ Serves("update")
                 /\ Authenticated(req'.auth)
                 /\ CalculationCreateErrors(req'.payload) = <<>>
                 /\ req'.id = id)
                => resp'.status = 404
             /\ (Serves("delete") /\ Authenticated(req'.auth) /\ req'.id = id)
                => resp'.status = 404]_vars

\* A GET of a deleted id was answered 404 while another row remained.
C8_Witness ==
    /\ req.op = "get"
    /\ Authenticated(req.auth)
    /\ req.id \in gone
    /\ resp.status = 404
    /\ calcs # {}

\* C9: a request to a /calculations route with a bearer token whose subject
\* is no user is rejected by the gate with 401.
C9_UnknownSubjectIsRejected ==
    (req.op \in CalcOps /\ IsBearer(req.auth) /\ ~Authenticated(req.auth))
        => (resp.status = 401 /\ resp.gate = "InvalidToken")

\* C10: any two rejections by the gate carry the same status and the same
\* error message.
C10_RejectionsAreUniform == Cardinality(refused) <= 1


\* The rows of the identifier, as username or as email
Known(rows, identifier) ==
    {i \in DOMAIN rows :
        rows[i].username = identifier \/ rows[i].email = identifier}

\* The table without the users of the identifier
Unregistered(rows, identifier) ==
    SelectSeq(rows, LAMBDA u : u.username # identifier /\ u.email # identifier)

\* C11: a login with an identifier that is registered with another password
\* is answered, in status and message, as the same login is answered by the
\* table that differs only in not holding the identifier's users, and it
\* leaves the table unchanged.
C11_FailedLoginHidesExistence ==
    [][(/\ Serves("login")
        /\ Known(users, req'.payload.username_or_email) # {}
        /\ \A i \in Known(users, req'.payload.username_or_email) :
               ~verify_password(req'.payload.password, users[i].password_hash))
          => LET unknown == login_user(
                     Unregistered(users, req'.payload.username_or_email),
                     req'.payload, 0)
             IN /\ resp'.status = unknown.status
                /\ resp'.error = unknown.error
                /\ resp'.body = {}
                /\ users' = users]_vars

\* A login with a registered identifier and a wrong password of valid
\* length was refused.
C11_Witness ==
    /\ req.op = "login"
    /\ Known(users, req.payload.username_or_email) # {}
    /\ \A i \in Known(users, req.payload.username_or_email) :
           ~verify_password(req.payload.password, users[i].password_hash)
    /\ UserLoginRequestErrors(req.payload) = <<>>
    /\ resp.status = 400
    /\ resp.error = <<"Invalid credentials">>


\* C12: on /add, /subtract and /multiply an exception of the operation is
\* answered 400 with the exception's message; on /divide a ValueError is
\* answered 400 with its message, "Cannot divide by zero!" for the
\* division by zero, and any other exception 500 with "Internal Server
\* Error", never its own message.
C12_OperationErrorMapping ==
    (req.op \in {"add", "subtract", "multiply", "divide"}
        /\ req.payload.outcome.raised)
    => LET e == req.payload.outcome IN
       /\ req.op \in {"add", "subtract", "multiply"}
          => (resp.status = 400 /\ resp.error = <<e.message>>)
       /\ (req.op = "divide" /\ e.kind = "ValueError")
          => (resp.status = 400 /\ resp.error = <<e.message>>)
       /\ (req.op = "divide" /\ e.kind # "ValueError")
          => (resp.status = 500 /\ resp.error = <<"Internal Server Error">>)
       /\ (req.op = "divide" /\ req.payload.b = 0 /\ e = divide(req.payload.a, 0))
          => resp.error = <<"Cannot divide by zero!">>

\* /divide answered 500 to an exception that is no ValueError, and whose
\* message a ValueError would have carried.
C12_Witness ==
    /\ req.op = "divide"
    /\ req.payload.outcome.raised
    /\ req.payload.outcome.kind = "Exception"
    /\ req.payload.outcome.message = "Cannot divide by zero!"
    /\ resp.status = 500


\* The result of a row is that of its own operation on its own operands.
ResultMatches(c) ==
    /\ c.type = "Add" => c.result = c.a + c.b
    /\ c.type = "Subtract" => c.result = c.a - c.b
    /\ c.type = "Multiply" => c.result = c.a * c.b
    /\ c.type = "Divide" => (c.b # 0 /\ c.result * c.b = c.a)

\* C13: after any sequence of create, update and delete requests every
\* stored calculation has result = op(a, b) for its own type, a and b, and
\* an update that fails (a Divide by zero among them) leaves the table, so
\* the a, b, type and result of its row, as they were.
C13_StoredResultsMatch ==
    /\ [](\A c \in calcs : ResultMatches(c))
    /\ [][(Serves("update") /\ resp'.status # 200) => calcs' = calcs]_vars

\* An authenticated update of a stored row to a Divide by zero was refused.
C13_Witness ==
    /\ req.op = "update"
    /\ Authenticated(req.auth)
    /\ req.payload.type = "Divide"
    /\ req.payload.b = 0
    /\ resp.status = 400
    /\ \E c \in calcs : c.id = req.id /\ c.type # "Divide" /\ ResultMatches(c)

====
